---- MODULE Spec2Model ----
(***************************************************************************)
(* Model of scripts/us_fema/national_risk_index/generate_schema_and_tmcf.py *)
(* Strings are TLA+ strings; a character is a string of length one.        *)
(* A Python exception is the record [error |-> <exception name>].          *)
(***************************************************************************)
EXTENDS Integers, Sequences, FiniteSets, TLC

VARIABLES pc, input_file, dd, loop_index, extracted_properties, schemas, tmcfs,
          csv_columns, files, call, ret

vars == <<pc, input_file, dd, loop_index, extracted_properties, schemas, tmcfs,
          csv_columns, files, call, ret>>

(***************************************************************************)
(* Bounds of the model                                                     *)
(***************************************************************************)
\* longest data dictionary (number of rows) of the file pipeline
MaxRows == 3
\* most " - "-separated segments of a Field Alias given to the row functions
MaxSegments == 3
\* longest list given to prune_list_dupes on its own
MaxList == 3

(***************************************************************************)
(* Python str primitives                                                   *)
(***************************************************************************)
Raise(name) == [error |-> name]

Raised(v) == "error" \in DOMAIN v

\* s[i] for a 1-based i
CharAt(s, i) == SubSeq(s, i, i)

\* sub in s
RECURSIVE FindFrom(_, _, _)
FindFrom(s, sub, i) ==
    IF i + Len(sub) - 1 > Len(s) THEN 0
    ELSE IF SubSeq(s, i, i + Len(sub) - 1) = sub THEN i
    ELSE FindFrom(s, sub, i + 1)

\* s.find(sub) + 1: the 1-based place of the first occurrence, 0 when none
Find(s, sub) == FindFrom(s, sub, 1)

Contains(s, sub) == Find(s, sub) > 0

\* s.split(sep), sep not empty
RECURSIVE Split(_, _)
Split(s, sep) ==
    LET at == Find(s, sep)
    IN  IF at = 0 THEN <<s>>
        ELSE <<SubSeq(s, 1, at - 1)>>
             \o Split(SubSeq(s, at + Len(sep), Len(s)), sep)

\* sep.join(parts)
RECURSIVE Join(_, _)
Join(sep, parts) ==
    IF Len(parts) = 0 THEN ""
    ELSE IF Len(parts) = 1 THEN parts[1]
    ELSE parts[1] \o sep \o Join(sep, Tail(parts))

\* s.replace(" ", "")
RECURSIVE RemoveSpaces(_)
RemoveSpaces(s) ==
    IF Len(s) = 0 THEN ""
    ELSE IF Head(s) = " " THEN RemoveSpaces(Tail(s))
    ELSE Head(s) \o RemoveSpaces(Tail(s))

\* s.count(c) for a one-character c
RECURSIVE Count(_, _)
Count(s, c) ==
    IF Len(s) = 0 THEN 0
    ELSE (IF Head(s) = c THEN 1 ELSE 0) + Count(Tail(s), c)

RECURSIVE LStrip(_)
LStrip(s) ==
    IF Len(s) > 0 /\ Head(s) = " " THEN LStrip(Tail(s)) ELSE s

RECURSIVE RStrip(_)
RStrip(s) ==
    IF Len(s) > 0 /\ CharAt(s, Len(s)) = " "
    THEN RStrip(SubSeq(s, 1, Len(s) - 1)) ELSE s

\* s.strip()
Strip(s) == RStrip(LStrip(s))

\* s[:-n] for n >= 0; in Python s[:-0] is s[:0], the empty string
DropLast(s, n) ==
    IF n = 0 THEN ""
    ELSE IF n >= Len(s) THEN ""
    ELSE SubSeq(s, 1, Len(s) - n)

LowerCase == "abcdefghijklmnopqrstuvwxyz"

UpperCase == "ABCDEFGHIJKLMNOPQRSTUVWXYZ"

\* c.isupper() for a character c
IsUpper(c) == Contains(UpperCase, c) /\ Len(c) = 1

\* c.upper() for a character c
Upper(c) ==
    IF Len(c) = 1 /\ Contains(LowerCase, c)
    THEN CharAt(UpperCase, Find(LowerCase, c))
    ELSE c

(***************************************************************************)
(* Module constants                                                        *)
(***************************************************************************)
IGNORED_FIELDS ==
    { "OBJECTID", "Shape", "Shape_Length", "Shape_Area", "STATE", "STATEABBRV",
      "STATEFIPS", "COUNTY", "COUNTYTYPE", "COUNTYFIPS", "STCOFIPS", "NRI_ID",
      "TRACT", "TRACTFIPS", "POPULATION", "BUILDVALUE", "AGRIVALUE", "AREA",
      "NRI_VER", "AIANNHCE", "FEDREG2020", "FEDERAL_ID", "JURS_NAME",
      "JURS_AREA", "JURS_TYPE", "HIFLD_NAME", "HIFLD_AREA", "HIFLD_TYPE" }

SCHEMA_OUTFILE_FILENAME == "output/fema_nri_stat_vars.mcf"

TMCF_OUTFILE_FILENAME == "output/fema_nri_counties.tmcf"

CSV_COLUMNS_FILENAME == "output/csv_columns.json"

FLAG_SKIP_EAL_COMPONENTS == TRUE

FLAG_SKIP_IMPACTED_THING_COMPONENTS == TRUE

FLAG_SKIP_NON_SCORE_RELATIVE_MEASURES == TRUE

FLAG_SKIP_RAW_VALUES == TRUE

COMPOSITE_ROW_LAYERS ==
    { "National Risk Index", "Expected Annual Loss", "Social Vulnerability",
      "Community Resilience" }

EAL_COMPONENTS ==
    << "Number of Events", "Annualized Frequency", "Historic Loss Ratio",
       "Exposure" >>

IMPACTED_THING_COMPONENTS == << "Building", "Population", "Agriculture" >>

RAW_VALUE_COMPONENTS ==
    << "Social Vulnerability - Value", "Community Resilience - Value" >>

NON_SCORE_RELATIVE_MEASURES == << "Rating", "Percentile" >>

DATACOMMONS_ALIASES ==
    ( "Score" :> "FemaNationalRiskScore" ) @@
    ( "SocialVulnerability" :> "femaSocialVulnerability" ) @@
    ( "CommunityResilience" :> "femaCommunityResilience" ) @@
    ( "HazardTypeRiskIndex" :> "femaNaturalHazardRiskIndex" ) @@
    ( "NationalRiskIndex" :> "femaNaturalHazardRiskIndex" ) @@
    ( "ExpectedAnnualLoss" :> "expectedLoss" )

\* COMPOSITE_MCF_FORMAT.format(node_dcid, m_prop, statvar_name)
COMPOSITE_MCF_FORMAT(node_dcid, m_prop, statvar_name) ==
    "Node: dcid:" \o node_dcid \o "\n"
    \o "typeOf: dcs:StatisticalVariable\n"
    \o "statType: dcs:measuredValue\n"
    \o "populationType: dcs:NaturalHazardImpact\n"
    \o "measuredProperty: dcs:" \o m_prop \o "\n"
    \o "name: \"" \o statvar_name \o "\"\n"

\* HAZARD_MCF_FORMAT_BASE.format(node_dcid, haz_type, m_prop, statvar_name)
HAZARD_MCF_FORMAT_BASE(node_dcid, haz_type, m_prop, statvar_name) ==
    "Node: dcid:" \o node_dcid \o "\n"
    \o "typeOf: dcs:StatisticalVariable\n"
    \o "populationType: dcs:NaturalHazardImpact\n"
    \o "statType: dcs:measuredValue\n"
    \o "naturalHazardType: dcs:" \o haz_type \o "\n"
    \o "measuredProperty: dcs:" \o m_prop \o "\n"
    \o "name: \"" \o statvar_name \o "\"\n"

\* TMCF_FORMAT.format(index, statvar_dcid, obs_date, field_name)
TMCF_FORMAT(index, statvar_dcid, obs_date, field_name) ==
    "\nNode: E:FEMA_NRI->E" \o ToString(index) \o "\n"
    \o "typeOf: dcs:StatVarObservation\n"
    \o "variableMeasured: dcs:" \o statvar_dcid \o "\n"
    \o "observationAbout: C:FEMA_NRI_Counties->DCID_GeoID\n"
    \o "observationDate: \"" \o obs_date \o "\"\n"
    \o "value: C:FEMA_NRI_Counties->" \o field_name \o "\n"

SCHEMA_OUTPUT_PREFIX ==
    "\n# This file was autogenerated. Please see:\n"
    \o "# https://github.com/datacommonsorg/data/tree/master/scripts/fema/nri/README.md\n"
    \o "\n"

(***************************************************************************)
(* Helpers of the script                                                   *)
(***************************************************************************)
Return(v) == [value |-> v]

\* k.append(el) for every el of l not yet in k
RECURSIVE PruneInto(_, _)
PruneInto(k, l) ==
    IF Len(l) = 0 THEN k
    ELSE IF \E j \in 1..Len(k) : k[j] = Head(l)
         THEN PruneInto(k, Tail(l))
         ELSE PruneInto(Append(k, Head(l)), Tail(l))

\* only a repeat of the element just before it is omitted
RECURSIVE PruneAdjacent(_)
PruneAdjacent(l) ==
    IF Len(l) <= 1 THEN l
    ELSE IF l[Len(l)] = l[Len(l) - 1]
         THEN PruneAdjacent(SubSeq(l, 1, Len(l) - 1))
         ELSE Append(PruneAdjacent(SubSeq(l, 1, Len(l) - 1)), l[Len(l)])

prune_adjacent_dupes(l) == PruneAdjacent(l)

\* one pass that omits only the first repeat it meets
prune_first_dupe(l) ==
    LET repeats == {j \in 1..Len(l) : \E i \in 1..(j - 1) : l[i] = l[j]}
    IN  IF repeats = {} THEN l
        ELSE LET first == CHOOSE j \in repeats : \A i \in repeats : j <= i
             IN  SubSeq(l, 1, first - 1) \o SubSeq(l, first + 1, Len(l))

prune_list_dupes(l) == PruneInto(<<>>, l)

\* string[0] raises IndexError on the empty string
capitalize_first(string) ==
    IF Len(string) = 0 THEN Raise("IndexError")
    ELSE Return(Upper(Head(string)) \o Tail(string))

apply_datacommon_alias(string) ==
    LET key == RemoveSpaces(Strip(string))
    IN  IF key \in DOMAIN DATACOMMONS_ALIASES
        THEN DATACOMMONS_ALIASES[key]
        ELSE string

\* row["Field Alias"].split(" - ")[i], i counted from 0
get_nth_dash_from_field_alias(row, i) ==
    LET parts == Split(row["Field Alias"], " - ")
    IN  IF i + 1 > Len(parts) THEN Raise("IndexError")
        ELSE Return(parts[i + 1])

drop_spaces(string) == RemoveSpaces(string)

\* the template keyed by the frame's "index" column, the place the row had
\* before reset_index
tmcf_from_row_by_frame_index(row, index, statvar_dcid, unit) ==
    LET tmcf == TMCF_FORMAT(row["index"], statvar_dcid,
                            row["Version ISO8601"], row["Field Name"])
    IN  IF unit # "" THEN tmcf \o "unit: " \o unit \o "\n" ELSE tmcf

\* the template without the place of the row: every block is E0
tmcf_from_row_without_ordinal(row, index, statvar_dcid, unit) ==
    LET tmcf == TMCF_FORMAT(0, statvar_dcid, row["Version ISO8601"],
                            row["Field Name"])
    IN  IF unit # "" THEN tmcf \o "unit: " \o unit \o "\n" ELSE tmcf

tmcf_from_row(row, index, statvar_dcid, unit) ==
    LET tmcf == TMCF_FORMAT(index, statvar_dcid, row["Version ISO8601"],
                            row["Field Name"])
    IN  IF unit # "" THEN tmcf \o "unit: " \o unit \o "\n" ELSE tmcf

is_composite_row(row) == row["Relevant Layer"] \in COMPOSITE_ROW_LAYERS

\* the unit is forced only for expectedLoss: any other property keeps the
\* unit it came with
normalize_unit_only_for_expected_loss(measured_property, unit) ==
    IF measured_property = "expectedLoss" /\ unit # "FemaNationalRiskScore"
    THEN <<measured_property, "dcid:USDollar">>
    ELSE <<measured_property, unit>>

normalize_unit_for_measured_property(measured_property, unit) ==
    IF unit # "FemaNationalRiskScore"
    THEN IF measured_property = "expectedLoss"
         THEN <<measured_property, "dcid:USDollar">>
         ELSE <<measured_property, "">>
    ELSE <<measured_property, unit>>

extract_properties_from_composite_row(row) ==
    LET seg0 == get_nth_dash_from_field_alias(row, 0)
        seg1 == get_nth_dash_from_field_alias(row, 1)
    IN  IF Raised(seg0) THEN seg0
        ELSE IF Raised(seg1) THEN seg1
        ELSE LET measured_property ==
                     apply_datacommon_alias(drop_spaces(seg0.value))
                 unit == apply_datacommon_alias(drop_spaces(seg1.value))
                 norm == normalize_unit_for_measured_property(
                             measured_property, unit)
             IN  [measured_property |-> norm[1], unit |-> norm[2]]

\* one character of add_spaces_before_capital_letters: char.strip() of a
\* space is the empty string
SpacedChar(char) ==
    IF IsUpper(char) THEN " " \o char
    ELSE IF char = " " THEN "" ELSE char

RECURSIVE SpacedChars(_)
SpacedChars(text) ==
    IF Len(text) = 0 THEN ""
    ELSE SpacedChar(Head(text)) \o SpacedChars(Tail(text))

add_spaces_before_capital_letters(text) == Strip(SpacedChars(text))

format_human_readable_name_from_properties(properties, is_composite) ==
    LET measured_property == properties.measured_property
        statvar_name ==
            IF measured_property = "expectedLoss"
            THEN "Annual Expected Loss from Natural Hazard Impact"
            ELSE IF measured_property = "femaNaturalHazardRiskIndex"
            THEN "FEMA National Risk Index for Natural Hazard Impact"
            ELSE LET m_prop_with_spaces ==
                         add_spaces_before_capital_letters(measured_property)
                     m_prop_without_fema ==
                         Join(" ", Tail(Split(m_prop_with_spaces, " ")))
                 IN  "FEMA " \o m_prop_without_fema
                     \o " to Natural Hazard Impact"
    IN  IF ~is_composite
        THEN LET hazard_type_with_spaces ==
                     add_spaces_before_capital_letters(properties.hazard_type)
                 words == Split(hazard_type_with_spaces, " ")
                 hazard_type_no_event ==
                     Join(" ", SubSeq(words, 1, Len(words) - 1))
             IN  statvar_name \o ": " \o hazard_type_no_event
        ELSE statvar_name

format_composite_field_properties_to_schema(properties) ==
    LET measured_property == properties.measured_property
        cap == capitalize_first(measured_property)
    IN  IF Raised(cap) THEN cap
        ELSE LET dcid ==
                     IF measured_property = "expectedLoss"
                     THEN "Annual_" \o cap.value \o "_NaturalHazardImpact"
                     ELSE cap.value \o "_NaturalHazardImpact"
                 statvar_name ==
                     format_human_readable_name_from_properties(properties,
                                                                TRUE)
                 formatted ==
                     COMPOSITE_MCF_FORMAT(dcid, measured_property,
                                          statvar_name)
             IN  IF measured_property = "expectedLoss"
                 THEN Return(<<formatted
                                \o "measurementQualifier: dcid:Annual\n",
                                dcid>>)
                 ELSE Return(<<formatted, dcid>>)

\* the hazard type of segment 0, with the one respelling
HazardTypeOf(seg0) ==
    LET hazard_type == drop_spaces(seg0) \o "Event"
    IN  IF hazard_type = "CoastalFloodingEvent" THEN "CoastalFloodEvent"
        ELSE hazard_type

\* the trailing token is cut off but never aliased
MeasuredPropertyAndUnitOf_RawUnit(seg1) ==
    LET aliased == apply_datacommon_alias(seg1)
        words == Split(aliased, " ")
        last == words[Len(words)]
    IN  IF Contains(aliased, "Score") \/ Contains(aliased, "Rating")
        THEN normalize_unit_for_measured_property(
                 apply_datacommon_alias(DropLast(aliased, Len(last))), last)
        ELSE normalize_unit_for_measured_property(aliased, "")

\* lines 339-354: <<measured_property, unit>> of segment 1, before the
\* spaces of measured_property are dropped
MeasuredPropertyAndUnitOf(seg1) ==
    LET aliased == apply_datacommon_alias(seg1)
        words == Split(aliased, " ")
        last == words[Len(words)]
    IN  IF Contains(aliased, "Score") \/ Contains(aliased, "Rating")
        THEN normalize_unit_for_measured_property(
                 apply_datacommon_alias(DropLast(aliased, Len(last))),
                 apply_datacommon_alias(last))
        ELSE normalize_unit_for_measured_property(aliased, "")

\* lines 362-378: the impacted thing, or the IndexError of segment 2
ImpactedThingOf(row) ==
    LET seg2 == get_nth_dash_from_field_alias(row, 2)
    IN  IF Count(row["Field Alias"], "-") > 1
        THEN IF Raised(seg2) THEN seg2
             ELSE LET impacted_thing ==
                          IF drop_spaces(seg2.value) = "Total" THEN ""
                          ELSE drop_spaces(seg2.value)
                  IN  IF Contains(impacted_thing, "Population")
                      THEN Return("Person")
                      ELSE Return(impacted_thing)
        ELSE Return("")

extract_properties_from_ind_hazard_row(row) ==
    LET seg0 == get_nth_dash_from_field_alias(row, 0)
        seg1 == get_nth_dash_from_field_alias(row, 1)
    IN  IF Raised(seg0) THEN seg0
        ELSE IF Raised(seg1) THEN seg1
        ELSE LET norm == MeasuredPropertyAndUnitOf(seg1.value)
                 measurement_qualifier ==
                     IF norm[1] = "expectedLoss" THEN "Annual" ELSE ""
                 impacted_thing == ImpactedThingOf(row)
             IN  IF Raised(impacted_thing) THEN impacted_thing
                 ELSE [hazard_type |-> HazardTypeOf(seg0.value),
                       measured_property |-> drop_spaces(norm[1]),
                       measurement_qualifier |-> measurement_qualifier,
                       impacted_thing |-> impacted_thing.value,
                       unit |-> norm[2]]

\* [element for element in dcid_list if element]
RECURSIVE DropEmpty(_)
DropEmpty(dcid_list) ==
    IF Len(dcid_list) = 0 THEN <<>>
    ELSE IF Head(dcid_list) = "" THEN DropEmpty(Tail(dcid_list))
    ELSE <<Head(dcid_list)>> \o DropEmpty(Tail(dcid_list))

\* the elements are joined as they are, without capitalize_first
IndHazardDcid_NotCapitalized(properties) ==
    Join("_", DropEmpty(<<properties.measurement_qualifier,
                          properties.measured_property,
                          "NaturalHazardImpact",
                          properties.hazard_type,
                          properties.impacted_thing>>))

\* the empty elements stay in the list that is joined
IndHazardDcid_EmptyKept(properties) ==
    LET dcid_list == <<properties.measurement_qualifier,
                       properties.measured_property,
                       "NaturalHazardImpact",
                       properties.hazard_type,
                       properties.impacted_thing>>
    IN  Join("_", [j \in 1..Len(dcid_list) |->
                       IF dcid_list[j] = "" THEN ""
                       ELSE capitalize_first(dcid_list[j]).value])

\* lines 403-416: the dcid of an individual hazard field; no element that
\* reaches capitalize_first is empty
IndHazardDcid(properties) ==
    LET dcid_list == DropEmpty(<<properties.measurement_qualifier,
                                 properties.measured_property,
                                 "NaturalHazardImpact",
                                 properties.hazard_type,
                                 properties.impacted_thing>>)
    IN  Join("_", [j \in 1..Len(dcid_list) |->
                       capitalize_first(dcid_list[j]).value])

format_ind_hazard_field_properties_to_schema(properties) ==
    LET dcid == IndHazardDcid(properties)
        statvar_name ==
            format_human_readable_name_from_properties(properties, FALSE)
        formatted ==
            HAZARD_MCF_FORMAT_BASE(dcid, properties.hazard_type,
                                   drop_spaces(properties.measured_property),
                                   statvar_name)
        with_thing ==
            IF properties.impacted_thing # ""
            THEN formatted \o "impactedThing: dcid:"
                 \o properties.impacted_thing \o "\n"
            ELSE formatted
        with_qualifier ==
            IF properties.measurement_qualifier # ""
            THEN with_thing \o "measurementQualifier: dcid:"
                 \o properties.measurement_qualifier \o "\n"
            ELSE with_thing
    IN  Return(<<with_qualifier, dcid>>)

extract_properties_from_row(row) ==
    LET properties ==
            IF is_composite_row(row)
            THEN extract_properties_from_composite_row(row)
            ELSE extract_properties_from_ind_hazard_row(row)
    IN  IF Raised(properties) THEN properties
        ELSE properties @@ [is_composite |-> is_composite_row(row),
                            row |-> row]

\* lines 193-199: (schema, statvar_dcid) of the properties
SchemaAndDcid(properties) ==
    IF properties.is_composite
    THEN format_composite_field_properties_to_schema(properties)
    ELSE format_ind_hazard_field_properties_to_schema(properties)

schema_and_tmcf_from_properties(properties, index) ==
    LET formatted == SchemaAndDcid(properties)
    IN  IF Raised(formatted) THEN formatted
        ELSE Return(<<formatted.value[1],
                      tmcf_from_row(properties.row, index,
                                    formatted.value[2], properties.unit)>>)

(***************************************************************************)
(* generate_schema_and_tmcf_from_file                                      *)
(***************************************************************************)
\* lines 451-460
field_alias_strings_to_skip ==
    (IF FLAG_SKIP_EAL_COMPONENTS THEN EAL_COMPONENTS ELSE <<>>)
    \o (IF FLAG_SKIP_IMPACTED_THING_COMPONENTS
        THEN IMPACTED_THING_COMPONENTS ELSE <<>>)
    \o (IF FLAG_SKIP_NON_SCORE_RELATIVE_MEASURES
        THEN NON_SCORE_RELATIVE_MEASURES ELSE <<>>)
    \o (IF FLAG_SKIP_RAW_VALUES THEN RAW_VALUE_COMPONENTS ELSE <<>>)

\* a token match: a row is skipped only when a whole segment of its alias is
\* one of the phrases
should_skip_segment(row) ==
    LET segments == Split(row["Field Alias"], " - ")
    IN  \E j \in 1..Len(field_alias_strings_to_skip) :
            \E i \in 1..Len(segments) :
                segments[i] = field_alias_strings_to_skip[j]

\* lines 474-477
should_skip_component(row) ==
    \E j \in 1..Len(field_alias_strings_to_skip) :
        Contains(row["Field Alias"], field_alias_strings_to_skip[j])

\* the cell texts that pd.read_csv reads as a missing value (its default
\* na_values)
NA_VALUES ==
    { "", "#N/A", "#N/A N/A", "#NA", "-1.#IND", "-1.#QNAN", "-NaN", "-nan",
      "1.#IND", "1.#QNAN", "<NA>", "N/A", "NA", "NULL", "NaN", "None", "n/a",
      "nan", "null" }

\* a missing cell, as str.format writes it
NaN == "nan"

\* pd.to_datetime(version).strftime('%Y-%m') on the Version cells of the
\* inputs: a missing cell stays missing (NaT, then NaN) without an
\* exception; any other text that is no date raises
ToISO8601(version) ==
    CASE version \in NA_VALUES -> Return(NaN)
      [] version = "November 2021" -> Return("2021-11")
      [] version = "2021-11-15" -> Return("2021-11")
      [] version = "March 2023" -> Return("2023-03")
      [] OTHER -> Raise("ValueError")

\* the Version texts with a year, a month and a day, for which to_datetime
\* can guess a format
FullDates == {"2021-11-15"}

\* to_datetime of pandas 2 reads the whole column in the format guessed
\* from its first cell that is not missing, and raises ValueError on a later
\* cell that is not in that format; pandas 1 parses each cell on its own
StrictFormatFails(versions) ==
    LET present == [j \in {i \in 1..Len(versions) :
                              versions[i] \notin NA_VALUES} |-> versions[j]]
        places == DOMAIN present
    IN  /\ places # {}
        /\ LET first == CHOOSE j \in places : \A i \in places : j <= i
           IN  /\ present[first] \in FullDates
               /\ \E j \in places : present[j] \notin FullDates

\* the places, in order, of the rows of a table that pass the isin filter
RECURSIVE KeptPlaces(_, _)
KeptPlaces(rows, from) ==
    IF from > Len(rows) THEN <<>>
    ELSE IF rows[from]["Field Name"] \in IGNORED_FIELDS
    THEN KeptPlaces(rows, from + 1)
    ELSE <<from>> \o KeptPlaces(rows, from + 1)

\* lines 467-469: the frame after the filter, the added column and
\* reset_index, which keeps the old place in the column "index"
LoadedFrame(rows) ==
    LET kept == KeptPlaces(rows, 1)
    IN  [j \in 1..Len(kept) |->
            rows[kept[j]]
            @@ ("Version ISO8601" :> ToISO8601(rows[kept[j]]["Version"]).value)
            @@ ("index" :> kept[j] - 1)]

\* json.dumps of a list of column names (names without quotes or backslashes)
JsonDumps(names) ==
    "[" \o Join(", ", [j \in 1..Len(names) |-> "\"" \o names[j] \o "\""])
    \o "]"

NoFiles ==
    (SCHEMA_OUTFILE_FILENAME :> <<>>) @@ (TMCF_OUTFILE_FILENAME :> <<>>)
    @@ (CSV_COLUMNS_FILENAME :> <<>>)

\* lines 463-469: the run fails on a missing Version column and on a Version
\* text that is no date; on a column that mixes formats behind a full date it
\* fails or goes on, as the installed pandas decides
Load ==
    /\ pc = "load"
    /\ LET rows == input_file.rows
           kept == KeptPlaces(rows, 1)
       IN  IF \/ "Version" \notin input_file.columns
              \/ \E j \in 1..Len(kept) :
                     Raised(ToISO8601(rows[kept[j]]["Version"]))
           THEN /\ pc' = "failed"
                /\ UNCHANGED dd
           ELSE \/ /\ StrictFormatFails([j \in 1..Len(kept) |->
                                             rows[kept[j]]["Version"]])
                   /\ pc' = "failed"
                   /\ UNCHANGED dd
                \/ /\ dd' = LoadedFrame(rows)
                   /\ pc' = IF Len(kept) = 0 THEN "prune" ELSE "extract"
    /\ UNCHANGED <<input_file, loop_index, extracted_properties, schemas, tmcfs,
                   csv_columns, files, call, ret>>

\* lines 472-485: one pass of the first loop
ExtractRow ==
    /\ pc = "extract"
    /\ loop_index < Len(dd)
    /\ LET row == dd[loop_index + 1]
           last == loop_index + 1 = Len(dd)
           properties == extract_properties_from_row(row)
       IN  IF should_skip_component(row)
           THEN /\ UNCHANGED extracted_properties
                /\ pc' = IF ~last THEN "extract"
                         ELSE IF Len(extracted_properties) = 0 THEN "prune"
                         ELSE "format"
                /\ loop_index' = IF last THEN 0 ELSE loop_index + 1
           ELSE IF Raised(properties)
           THEN /\ pc' = "failed"
                /\ UNCHANGED <<extracted_properties, loop_index>>
           ELSE /\ extracted_properties' =
                       Append(extracted_properties, properties)
                /\ pc' = IF last THEN "format" ELSE "extract"
                /\ loop_index' = IF last THEN 0 ELSE loop_index + 1
    /\ UNCHANGED <<input_file, dd, schemas, tmcfs, csv_columns, files, call,
                   ret>>

\* the second loop writing each schema block out as soon as it is formatted
FormatProperties_WriteThrough ==
    /\ pc = "format"
    /\ loop_index < Len(extracted_properties)
    /\ LET properties == extracted_properties[loop_index + 1]
           formatted == schema_and_tmcf_from_properties(properties, loop_index)
       IN  IF Raised(formatted)
           THEN /\ pc' = "failed"
                /\ UNCHANGED <<schemas, tmcfs, csv_columns, loop_index, files>>
           ELSE /\ schemas' = Append(schemas, formatted.value[1])
                /\ tmcfs' = Append(tmcfs, formatted.value[2])
                /\ csv_columns' =
                       Append(csv_columns, properties.row["Field Name"])
                /\ files' = [files EXCEPT ![SCHEMA_OUTFILE_FILENAME] =
                                 Append(@, formatted.value[1])]
                /\ loop_index' = loop_index + 1
                /\ pc' = IF loop_index + 1 = Len(extracted_properties)
                         THEN "prune" ELSE "format"
    /\ UNCHANGED <<input_file, dd, extracted_properties, call, ret>>

\* lines 491-498: one pass of the second loop
FormatProperties ==
    /\ pc = "format"
    /\ loop_index < Len(extracted_properties)
    /\ LET properties == extracted_properties[loop_index + 1]
           formatted == schema_and_tmcf_from_properties(properties, loop_index)
       IN  IF Raised(formatted)
           THEN /\ pc' = "failed"
                /\ UNCHANGED <<schemas, tmcfs, csv_columns, loop_index>>
           ELSE /\ schemas' = Append(schemas, formatted.value[1])
                /\ tmcfs' = Append(tmcfs, formatted.value[2])
                /\ csv_columns' =
                       Append(csv_columns, properties.row["Field Name"])
                /\ loop_index' = loop_index + 1
                /\ pc' = IF loop_index + 1 = Len(extracted_properties)
                         THEN "prune" ELSE "format"
    /\ UNCHANGED <<input_file, dd, extracted_properties, files, call, ret>>

\* the places of the rows whose schema is not a repeat of an earlier one
RECURSIVE FirstSchemaPlaces(_, _)
FirstSchemaPlaces(texts, from) ==
    IF from > Len(texts) THEN <<>>
    ELSE IF \E j \in 1..(from - 1) : texts[j] = texts[from]
    THEN FirstSchemaPlaces(texts, from + 1)
    ELSE <<from>> \o FirstSchemaPlaces(texts, from + 1)

\* the three lists pruned together, keyed by the schema text of the row
PruneDupes_KeyedBySchema ==
    /\ pc = "prune"
    /\ LET keep == FirstSchemaPlaces(schemas, 1)
       IN  /\ schemas' = [j \in 1..Len(keep) |-> schemas[keep[j]]]
           /\ tmcfs' = [j \in 1..Len(keep) |-> tmcfs[keep[j]]]
           /\ csv_columns' = [j \in 1..Len(keep) |-> csv_columns[keep[j]]]
    /\ pc' = "write_schema"
    /\ UNCHANGED <<input_file, dd, loop_index, extracted_properties, files,
                   call, ret>>

\* lines 504-506
PruneDupes ==
    /\ pc = "prune"
    /\ schemas' = prune_list_dupes(schemas)
    /\ tmcfs' = prune_list_dupes(tmcfs)
    /\ csv_columns' = prune_list_dupes(csv_columns)
    /\ pc' = "write_schema"
    /\ UNCHANGED <<input_file, dd, loop_index, extracted_properties, files, call,
                   ret>>

\* lines 508, 513-515
WriteSchema ==
    /\ pc = "write_schema"
    /\ files' = [files EXCEPT ![SCHEMA_OUTFILE_FILENAME] =
                     Append(@, SCHEMA_OUTPUT_PREFIX \o Join("\n", schemas))]
    /\ pc' = "write_tmcf"
    /\ UNCHANGED <<input_file, dd, loop_index, extracted_properties, schemas,
                   tmcfs, csv_columns, call, ret>>

\* lines 509, 517-519
WriteTmcf ==
    /\ pc = "write_tmcf"
    /\ files' = [files EXCEPT ![TMCF_OUTFILE_FILENAME] =
                     Append(@, Join("", tmcfs))]
    /\ pc' = "write_csv"
    /\ UNCHANGED <<input_file, dd, loop_index, extracted_properties, schemas,
                   tmcfs, csv_columns, call, ret>>

\* lines 510, 521-523
WriteCsvColumns ==
    /\ pc = "write_csv"
    /\ files' = [files EXCEPT ![CSV_COLUMNS_FILENAME] =
                     Append(@, JsonDumps(csv_columns))]
    /\ pc' = "done"
    /\ UNCHANGED <<input_file, dd, loop_index, extracted_properties, schemas,
                   tmcfs, csv_columns, call, ret>>

(***************************************************************************)
(* The file pipeline: one run of generate_schema_and_tmcf_from_file        *)
(***************************************************************************)
DictionaryRow(field_name, field_alias, relevant_layer, version) ==
    ("Field Name" :> field_name) @@ ("Field Alias" :> field_alias)
    @@ ("Relevant Layer" :> relevant_layer) @@ ("Version" :> version)

\* rows of a data dictionary: a score and its rating, the same measure under
\* a second column name, an ignored column, a composite score, rows on which
\* extraction or formatting raises, and a score whose hazard is written
\* without its capital
FileRows ==
    { DictionaryRow("AVLN_EALS", "Avalanche - Expected Annual Loss Score",
                    "Avalanche", "November 2021"),
      DictionaryRow("AVLN_EALS2", "Avalanche - Expected Annual Loss Score",
                    "Avalanche", "November 2021"),
      DictionaryRow("OBJECTID", "Object ID", "Metadata", "n/a"),
      DictionaryRow("RISK_SCORE", "National Risk Index - Score",
                    "National Risk Index", "2021-11-15"),
      DictionaryRow("AVLN_RISKR", "Avalanche - Hazard Type Risk Index Rating",
                    "Avalanche", "November 2021"),
      DictionaryRow("CFLD_EALT", "Coastal Flooding - Expected Annual Loss - Total",
                    "Coastal Flooding", "March 2023"),
      DictionaryRow("EAL_VALT", "Expected Annual Loss",
                    "Expected Annual Loss", "November 2021"),
      DictionaryRow("SOVI_SCORE", " - Score",
                    "Social Vulnerability", "November 2021"),
      DictionaryRow("AVLN_EALS3", "avalanche - Expected Annual Loss Score",
                    "Avalanche", "November 2021") }

\* rows whose alias holds a phrase of EAL_COMPONENTS, of
\* IMPACTED_THING_COMPONENTS and of RAW_VALUE_COMPONENTS
SkippedRows ==
    { DictionaryRow("AVLN_EXPT", "Avalanche - Exposure - Total",
                    "Avalanche", "November 2021"),
      DictionaryRow("AVLN_EALB",
                    "Avalanche - Expected Annual Loss - Building Value",
                    "Avalanche", "November 2021"),
      DictionaryRow("SOVI_VALUE", "Social Vulnerability - Value",
                    "Social Vulnerability", "November 2021") }

\* kept rows without a date: a Version text that is no date and no
\* missing-value marker, and a Version cell that read_csv reads as missing
UndatedRows ==
    { DictionaryRow("CFLD_EALS", "Coastal Flooding - Expected Annual Loss Score",
                    "Coastal Flooding", "unknown"),
      DictionaryRow("AVLN_EVNTS", "Avalanche - Hazard Type Risk Index Score",
                    "Avalanche", "n/a") }

DictionaryRows == FileRows \cup SkippedRows \cup UndatedRows

\* a row of SkippedRows alone, before and behind a row of FileRows
RowsWithSkipped ==
    { <<skipped>> : skipped \in SkippedRows }
    \cup { <<skipped, row>> : skipped \in SkippedRows, row \in FileRows }
    \cup { <<row, skipped>> : skipped \in SkippedRows, row \in FileRows }

\* a row of UndatedRows alone, before and behind a row of FileRows
RowsWithUndated ==
    { <<undated>> : undated \in UndatedRows }
    \cup { <<undated, row>> : undated \in UndatedRows, row \in FileRows }
    \cup { <<row, undated>> : undated \in UndatedRows, row \in FileRows }

AllColumns == {"Field Name", "Field Alias", "Relevant Layer", "Version"}

\* the tables read_csv can return: every column present, or no Version column
InputFiles ==
    { [columns |-> AllColumns, rows |-> rows] :
          rows \in UNION {[1..n -> FileRows] : n \in 0..MaxRows}
                       \cup RowsWithSkipped \cup RowsWithUndated }
    \cup { [columns |-> AllColumns \ {"Version"}, rows |-> <<>>] }

MainCall == [fn |-> "generate_schema_and_tmcf_from_file"]

Pending == [pending |-> TRUE]

Init ==
    /\ pc = "load"
    /\ input_file \in InputFiles
    /\ dd = <<>>
    /\ loop_index = 0
    /\ extracted_properties = <<>>
    /\ schemas = <<>>
    /\ tmcfs = <<>>
    /\ csv_columns = <<>>
    /\ files = NoFiles
    /\ call = MainCall
    /\ ret = Pending

Next ==
    \/ Load
    \/ ExtractRow
    \/ FormatProperties
    \/ PruneDupes
    \/ WriteSchema
    \/ WriteTmcf
    \/ WriteCsvColumns

Spec == Init /\ [][Next]_vars

(***************************************************************************)
(* The functions of the script on their own: one call, then its return     *)
(***************************************************************************)
\* first segments: two hazards and three composite measures; the Relevant
\* Layer of a row is its first segment
FirstSegments ==
    { "Avalanche", "Coastal Flooding", "National Risk Index",
      "Expected Annual Loss", "Social Vulnerability" }

\* later segments: measures with and without a trailing Score or Rating,
\* impacted things, a hyphenated word with and without a trailing Score, and
\* a trailing underscore
Segments ==
    { "Score", "Expected Annual Loss", "Expected Annual Loss Score",
      "Hazard Type Risk Index Score", "Wind Chill Score",
      "Expected Annual Loss Rating", "expected Loss", "Semi-Annual Loss",
      "Semi-Annual Loss Score", "Total", "Population Equivalence", "Loss_" }

LoadedRow(field_alias, relevant_layer) ==
    DictionaryRow("FIELD", field_alias, relevant_layer, "November 2021")
    @@ ("Version ISO8601" :> "2021-11") @@ ("index" :> 0)

FnRows ==
    { LoadedRow(Join(" - ", <<first>> \o rest), first) :
          first \in FirstSegments,
          rest \in UNION {[1..n -> Segments] : n \in 0..(MaxSegments - 1)} }

Units == {"", "FemaNationalRiskScore", "dcid:USDollar"}

\* properties records given to the formatters directly: every combination of
\* empty and non-empty components
FnProperties ==
    { [hazard_type |-> ht, measured_property |-> mp,
       measurement_qualifier |-> mq, impacted_thing |-> it, unit |-> u,
       is_composite |-> FALSE, row |-> LoadedRow("", "Avalanche")] :
          ht \in {"", "AvalancheEvent", "CoastalFloodEvent"},
          mp \in {"", "expectedLoss", "femaNaturalHazardRiskIndex",
                  "femaSocialVulnerability"},
          mq \in {"", "Annual"},
          it \in {"", "Person", "Building"},
          u \in Units }
    \cup
    { [measured_property |-> mp, unit |-> u, is_composite |-> TRUE,
       row |-> LoadedRow("", "National Risk Index")] :
          mp \in {"", "expectedLoss", "femaNaturalHazardRiskIndex",
                  "femaSocialVulnerability"},
          u \in Units }

NormalizeArgs ==
    {"expectedLoss", "femaNaturalHazardRiskIndex", "expected Loss",
     "Expected Annual Loss", ""}
    \X {"FemaNationalRiskScore", "dcid:USDollar", "Score", "Rating",
        "femanationalriskscore", ""}

Lists == UNION {[1..n -> {"a", "b", "c"}] : n \in 0..MaxList}

ExtractCalls ==
    { [fn |-> "extract_properties_from_row", row |-> r] : r \in FnRows }

FormatCalls ==
    { [fn |-> "schema_and_tmcf_from_properties", properties |-> p,
       index |-> i] : p \in FnProperties, i \in {0, 1} }

NormalizeCalls ==
    { [fn |-> "normalize_unit_for_measured_property",
       measured_property |-> a[1], unit |-> a[2]] : a \in NormalizeArgs }

PruneCalls == { [fn |-> "prune_list_dupes", l |-> l] : l \in Lists }

InitFn ==
    /\ pc = "call"
    /\ \/ call \in ExtractCalls
       \/ call \in FormatCalls
       \/ call \in NormalizeCalls
       \/ call \in PruneCalls
    /\ ret = Pending
    /\ input_file = [columns |-> AllColumns, rows |-> <<>>]
    /\ dd = <<>>
    /\ loop_index = 0
    /\ extracted_properties = <<>>
    /\ schemas = <<>>
    /\ tmcfs = <<>>
    /\ csv_columns = <<>>
    /\ files = NoFiles

FnFrame ==
    UNCHANGED <<input_file, dd, loop_index, extracted_properties, schemas,
                tmcfs, csv_columns, files>>

CallExtract ==
    /\ pc = "call"
    /\ call.fn = "extract_properties_from_row"
    /\ ret' = extract_properties_from_row(call.row)
    /\ pc' = "returned"
    /\ UNCHANGED call
    /\ FnFrame

\* the properties a row gave are handed on, as in the second loop
FormatExtracted ==
    /\ pc = "returned"
    /\ call.fn = "extract_properties_from_row"
    /\ ~Raised(ret)
    /\ call' = [fn |-> "schema_and_tmcf_from_properties", properties |-> ret,
                index |-> 0]
    /\ ret' = Pending
    /\ pc' = "call"
    /\ FnFrame

\* the return value, with the local statvar_dcid beside it
CallSchemaAndTmcf ==
    /\ pc = "call"
    /\ call.fn = "schema_and_tmcf_from_properties"
    /\ LET formatted == SchemaAndDcid(call.properties)
           result == schema_and_tmcf_from_properties(call.properties,
                                                     call.index)
       IN  ret' = IF Raised(result) THEN result
                  ELSE [value |-> result.value,
                        statvar_dcid |-> formatted.value[2]]
    /\ pc' = "returned"
    /\ UNCHANGED call
    /\ FnFrame

CallNormalize ==
    /\ pc = "call"
    /\ call.fn = "normalize_unit_for_measured_property"
    /\ ret' = Return(normalize_unit_for_measured_property(
                         call.measured_property, call.unit))
    /\ pc' = "returned"
    /\ UNCHANGED call
    /\ FnFrame

CallPrune ==
    /\ pc = "call"
    /\ call.fn = "prune_list_dupes"
    /\ ret' = Return(prune_list_dupes(call.l))
    /\ pc' = "returned"
    /\ UNCHANGED call
    /\ FnFrame

NextFn ==
    \/ CallExtract
    \/ FormatExtracted
    \/ CallSchemaAndTmcf
    \/ CallNormalize
    \/ CallPrune

FnSpec == InitFn /\ [][NextFn]_vars

(***************************************************************************)
(* Properties of extraction (FnSpec)                                       *)
(***************************************************************************)
ExtractReturned ==
    pc = "returned" /\ call.fn = "extract_properties_from_row"

ExtractCompleted == ExtractReturned /\ ~Raised(ret)

CalledAlias == call.row["Field Alias"]

\* a row the file pipeline would keep: not ignored, not skipped
Retained(row) ==
    /\ row["Field Name"] \notin IGNORED_FIELDS
    /\ ~should_skip_component(row)

\* C1: on every retained row on which extraction completes, the extracted
\* measuredProperty is a non-empty string.
C1_MeasuredPropertyNonEmpty ==
    (ExtractCompleted /\ Retained(call.row))
        => ret.measured_property # ""

RISK_SCORE_UNIT == "FemaNationalRiskScore"

CURRENCY_UNIT == "dcid:USDollar"

\* C2: on both paths the extracted unit is the risk-score token, the currency
\* token or the empty string.
C2_ClosedUnitVocabulary ==
    ExtractCompleted => ret.unit \in {RISK_SCORE_UNIT, CURRENCY_UNIT, ""}

\* a trailing "Rating" is raw alias text that normalisation replaces
C2_Witness ==
    /\ ExtractCompleted
    /\ CalledAlias = "Avalanche - Expected Annual Loss Rating"
    /\ ~ret.is_composite
    /\ ret.unit = CURRENCY_UNIT

\* the measures P of the aliases "H - P Score", with the token the alias
\* table gives P, or P without its spaces
ScoreMeasureToken ==
    ( "Expected Annual Loss" :> "expectedLoss" ) @@
    ( "Hazard Type Risk Index" :> "femaNaturalHazardRiskIndex" ) @@
    ( "Wind Chill" :> "WindChill" ) @@
    ( "Semi-Annual Loss" :> "Semi-AnnualLoss" )

\* the text holds no hyphen
HyphenFree(text) == \A i \in 1..Len(text) : SubSeq(text, i, i) # "-"

\* the individual-hazard call on the alias "H - P Score" has returned
ScoreRowReturned(H, P) ==
    /\ ExtractReturned
    /\ ~is_composite_row(call.row)
    /\ CalledAlias = H \o " - " \o P \o " Score"

AvalancheExample ==
    ScoreRowReturned("Avalanche", "Expected Annual Loss")
        => /\ ~Raised(ret)
           /\ ret.hazard_type = "AvalancheEvent"
           /\ ret.measured_property = "expectedLoss"
           /\ ret.unit = "FemaNationalRiskScore"
           /\ ret.measurement_qualifier = "Annual"
           /\ ret.impacted_thing = ""

\* C3 as claimed: for the alias "H - P Score", hazardType is H without its
\* spaces plus "Event", measuredProperty is the alias-table token of P (or P
\* without spaces), and unit is FemaNationalRiskScore.
C3_Original ==
    /\ \A H \in {"Avalanche", "Coastal Flooding"}, P \in DOMAIN ScoreMeasureToken :
           ScoreRowReturned(H, P)
               => /\ ~Raised(ret)
                  /\ ret.hazard_type = RemoveSpaces(H) \o "Event"
                  /\ ret.measured_property = ScoreMeasureToken[P]
                  /\ ret.unit = "FemaNationalRiskScore"
    /\ AvalancheExample

\* C3 (amended): for the alias "H - P Score" with no hyphen in H or in P,
\* hazardType is H without its spaces plus "Event", except that
\* CoastalFloodingEvent is respelled CoastalFloodEvent; measuredProperty is
\* the alias-table token of P (or P without spaces); unit is
\* FemaNationalRiskScore.
C3_ScoreSplit ==
    /\ \A H \in {"Avalanche", "Coastal Flooding"}, P \in DOMAIN ScoreMeasureToken :
           (ScoreRowReturned(H, P) /\ HyphenFree(H) /\ HyphenFree(P))
               => /\ ~Raised(ret)
                  /\ ret.hazard_type =
                         (IF H = "Coastal Flooding" THEN "CoastalFloodEvent"
                          ELSE RemoveSpaces(H) \o "Event")
                  /\ ret.measured_property = ScoreMeasureToken[P]
                  /\ ret.unit = "FemaNationalRiskScore"
    /\ AvalancheExample

C3_Witness ==
    /\ ScoreRowReturned("Coastal Flooding", "Wind Chill")
    /\ ret.hazard_type = "CoastalFloodEvent"
    /\ ret.measured_property = "WindChill"

\* C4: on every individual-hazard row, measurementQualifier is "Annual" when
\* the extracted measuredProperty is expectedLoss and empty otherwise.
C4_QualifierFollowsProperty ==
    (ExtractCompleted /\ ~ret.is_composite)
        => ret.measurement_qualifier =
               (IF ret.measured_property = "expectedLoss" THEN "Annual"
                ELSE "")

\* the " - "-delimited segments of the alias of the call
CalledSegments == Split(CalledAlias, " - ")

\* C5: on an individual-hazard row, with no third segment extraction
\* completes with impactedThing empty; with a third segment impactedThing is
\* that segment without spaces, "Total" giving empty and any value
\* containing "Population" giving "Person".
C5_ImpactedThingFromThirdSegment ==
    (ExtractReturned /\ ~is_composite_row(call.row)
         /\ Len(CalledSegments) >= 2)
        => /\ ~Raised(ret)
           /\ ret.impacted_thing =
                  (IF Len(CalledSegments) = 2 THEN ""
                   ELSE IF RemoveSpaces(CalledSegments[3]) = "Total" THEN ""
                   ELSE IF Contains(RemoveSpaces(CalledSegments[3]),
                                    "Population")
                   THEN "Person"
                   ELSE RemoveSpaces(CalledSegments[3]))

(***************************************************************************)
(* Properties of identifier synthesis and of unit normalisation (FnSpec)   *)
(***************************************************************************)
FormatReturned ==
    pc = "returned" /\ call.fn = "schema_and_tmcf_from_properties"

FormatCompleted == FormatReturned /\ ~Raised(ret)

\* Capitalize(s) of a non-empty s; the empty text stays empty
Capitalize(s) == IF s = "" THEN "" ELSE Upper(SubSeq(s, 1, 1)) \o Tail(s)

\* the identifier the claim states for the properties p
StatedIdentifier(p) ==
    IF p.is_composite
    THEN IF p.measured_property = "expectedLoss"
         THEN "Annual_" \o Capitalize(p.measured_property)
              \o "_NaturalHazardImpact"
         ELSE Capitalize(p.measured_property) \o "_NaturalHazardImpact"
    ELSE (IF p.measurement_qualifier = "" THEN ""
          ELSE Capitalize(p.measurement_qualifier) \o "_")
         \o (IF p.measured_property = "" THEN ""
             ELSE Capitalize(p.measured_property) \o "_")
         \o "NaturalHazardImpact"
         \o (IF p.hazard_type = "" THEN ""
             ELSE "_" \o Capitalize(p.hazard_type))
         \o (IF p.impacted_thing = "" THEN ""
             ELSE "_" \o Capitalize(p.impacted_thing))

\* C6: the synthesized identifier is the non-empty entries of
\* [measurementQualifier, measuredProperty, "NaturalHazardImpact",
\* hazardType, impactedThing], capitalized and joined by underscores, for an
\* individual-hazard row, and ["Annual_" +] Capitalize(property) +
\* "_NaturalHazardImpact" for a composite row; the schema block and the
\* template block of the row both carry that identifier.
C6_IdentifierAsStated ==
    FormatCompleted
        => /\ ret.statvar_dcid = StatedIdentifier(call.properties)
           /\ Contains(ret.value[1],
                       "Node: dcid:" \o StatedIdentifier(call.properties)
                       \o "\n")
           /\ Contains(ret.value[2],
                       "variableMeasured: dcs:"
                       \o StatedIdentifier(call.properties) \o "\n")

C6_Witness ==
    /\ FormatCompleted
    /\ call.properties.row["Field Alias"]
           = "Avalanche - Expected Annual Loss Score"
    /\ ret.statvar_dcid
           = "Annual_ExpectedLoss_NaturalHazardImpact_AvalancheEvent"

\* no leading, trailing or doubled underscore
WellFormedIdentifier(dcid) ==
    /\ dcid # ""
    /\ SubSeq(dcid, 1, 1) # "_"
    /\ SubSeq(dcid, Len(dcid), Len(dcid)) # "_"
    /\ ~Contains(dcid, "__")

\* the text components of a properties record
Components(p) ==
    IF p.is_composite THEN {p.measured_property}
    ELSE {p.measurement_qualifier, p.measured_property, p.hazard_type,
          p.impacted_thing}

\* C7 as claimed: for every properties record the identifier has no leading,
\* trailing or doubled underscore.
C7_Original == FormatCompleted => WellFormedIdentifier(ret.statvar_dcid)

\* C7 (amended): for every properties record whose components contain no
\* underscore, with any combination of empty and non-empty components, the
\* identifier has no leading, trailing or doubled underscore.
C7_NoStrayUnderscore ==
    (FormatCompleted
         /\ \A c \in Components(call.properties) : ~Contains(c, "_"))
        => WellFormedIdentifier(ret.statvar_dcid)

\* only the hazard type is present: two entries, one underscore
C7_Witness ==
    /\ FormatCompleted
    /\ ~call.properties.is_composite
    /\ call.properties.measurement_qualifier = ""
    /\ call.properties.measured_property = ""
    /\ call.properties.impacted_thing = ""
    /\ call.properties.hazard_type = "AvalancheEvent"
    /\ ret.statvar_dcid = "NaturalHazardImpact_AvalancheEvent"

NormalizeReturned ==
    pc = "returned" /\ call.fn = "normalize_unit_for_measured_property"

\* C8: unit normalisation returns the measuredProperty unchanged; the
\* risk-score token stays; any other unit becomes the currency token for
\* expectedLoss and the empty string otherwise, so for expectedLoss the
\* result is never empty.
C8_UnitNormalization ==
    NormalizeReturned
        => /\ ret.value[1] = call.measured_property
           /\ call.unit = RISK_SCORE_UNIT => ret.value[2] = RISK_SCORE_UNIT
           /\ (call.unit # RISK_SCORE_UNIT
                   /\ call.measured_property = "expectedLoss")
                  => ret.value[2] = CURRENCY_UNIT
           /\ (call.unit # RISK_SCORE_UNIT
                   /\ call.measured_property # "expectedLoss")
                  => ret.value[2] = ""
           /\ call.measured_property = "expectedLoss"
                  => ret.value[2] \in {RISK_SCORE_UNIT, CURRENCY_UNIT}

C8_Witness ==
    /\ NormalizeReturned
    /\ call.measured_property = "expectedLoss"
    /\ call.unit = ""
    /\ ret.value = <<"expectedLoss", CURRENCY_UNIT>>

(***************************************************************************)
(* Properties of deduplication in the file pipeline (Spec)                 *)
(***************************************************************************)
Elems(seq) == {seq[j] : j \in 1..Len(seq)}

Occurrences(seq, v) == Cardinality({j \in 1..Len(seq) : seq[j] = v})

FirstPlace(seq, v) ==
    CHOOSE j \in 1..Len(seq) :
        seq[j] = v /\ \A i \in 1..(j - 1) : seq[i] # v

\* k holds every distinct value of l exactly once, in the order of first
\* occurrence in l
DedupOf(k, l) ==
    /\ Elems(k) = Elems(l)
    /\ \A v \in Elems(l) : Occurrences(k, v) = 1
    /\ \A a, b \in 1..Len(k) :
           a < b => FirstPlace(l, k[a]) < FirstPlace(l, k[b])

\* C9: each of the three output sequences is deduplicated on its own: the
\* result holds every distinct value of that sequence once, in the order of
\* first occurrence, whatever is removed from the other two.
C9_IndependentDedup ==
    [][pc = "prune"
           => /\ DedupOf(schemas', schemas)
              /\ DedupOf(tmcfs', tmcfs)
              /\ DedupOf(csv_columns', csv_columns)]_vars

\* two rows with the same schema text and different column names
C9_Witness ==
    /\ pc = "write_schema"
    /\ Len(extracted_properties) = 2
    /\ Len(schemas) = 1
    /\ csv_columns = <<"AVLN_EALS", "AVLN_EALS2">>

\* the rows, by place, whose schema text repeats that of an earlier row
RepeatedSchemaPlaces ==
    {k \in 1..Len(schemas) : \E j \in 1..(k - 1) : schemas[j] = schemas[k]}

\* C10 as claimed: when a row's schema text duplicates an earlier one, none
\* of that row's three parts is emitted.
C10_Original ==
    [][pc = "prune"
           => \A k \in RepeatedSchemaPlaces :
                  /\ tmcfs[k] \notin Elems(tmcfs')
                  /\ csv_columns[k] \notin Elems(csv_columns')]_vars

\* C10 (amended): when a row's schema text duplicates an earlier one, only
\* its schema block is dropped (the text stays once in the schema output);
\* its template block is still emitted and its column name is still in the
\* column list.
C10_OnlySchemaDropped ==
    [][pc = "prune"
           => \A k \in RepeatedSchemaPlaces :
                  /\ Occurrences(schemas', schemas[k]) = 1
                  /\ Len(schemas') < Len(schemas)
                  /\ tmcfs[k] \in Elems(tmcfs')
                  /\ csv_columns[k] \in Elems(csv_columns')]_vars

\* the same row twice: one schema, one column name, two template blocks
C10_Witness ==
    /\ pc = "write_schema"
    /\ Len(extracted_properties) = 2
    /\ Len(schemas) = 1
    /\ Len(tmcfs) = 2
    /\ csv_columns = <<"RISK_SCORE">>

(***************************************************************************)
(* Properties of prune_list_dupes on its own (FnSpec)                      *)
(***************************************************************************)
PruneReturned == pc = "returned" /\ call.fn = "prune_list_dupes"

\* C11: deduplication is idempotent: for every input list, applying
\* prune_list_dupes to its own output returns that output unchanged.
C11_DedupIdempotent ==
    PruneReturned => prune_list_dupes(ret.value) = ret.value

\* a list whose value occurs three times, pruned to one occurrence
C11_Witness ==
    /\ PruneReturned
    /\ call.l = <<"a", "a", "a">>
    /\ ret.value = <<"a">>

(***************************************************************************)
(* Properties of the retained rows and their ordinals (Spec)               *)
(***************************************************************************)
\* the line of a block that starts with `label`, without the label
LineOf(block, label) ==
    LET lines == Split(block, "\n")
        at == CHOOSE j \in 1..Len(lines) :
                  /\ Len(lines[j]) >= Len(label)
                  /\ SubSeq(lines[j], 1, Len(label)) = label
                  /\ \A i \in 1..(j - 1) :
                         \/ Len(lines[i]) < Len(label)
                         \/ SubSeq(lines[i], 1, Len(label)) # label
    IN  SubSeq(lines[at], Len(label) + 1, Len(lines[at]))

StartsWith(text, prefix) ==
    /\ Len(text) >= Len(prefix)
    /\ SubSeq(text, 1, Len(prefix)) = prefix

\* the opening of a template block that carries the ordinal n
NodeLine(n) == "\nNode: E:FEMA_NRI->E" \o ToString(n) \o "\n"

\* the ordinal a template block carries in its Node line
OrdinalOf(tmcf) == LineOf(tmcf, "Node: E:FEMA_NRI->E")

\* the column a template block reads its value from
ColumnOf(tmcf) == LineOf(tmcf, "value: C:FEMA_NRI_Counties->")

Names(rows) == [k \in 1..Len(rows) |-> rows[k]["Field Name"]]

Aliases(rows) == [k \in 1..Len(rows) |-> rows[k]["Field Alias"]]

\* the rows of the dictionary that are neither ignored nor skipped
RetainedFileRows == {row \in DictionaryRows : Retained(row)}

IsRetained(row) == row \in RetainedFileRows

\* the rows of the input, in input order, that are neither ignored nor
\* skipped
RetainedRows == SelectSeq(input_file.rows, IsRetained)

Formatted == pc \in {"prune", "write_schema", "write_tmcf", "write_csv", "done"}

\* C12: the ordinals of the template blocks are dense and zero-based over
\* the retained rows: with n rows retained after both filters, the blocks
\* carry exactly 0, 1, ..., n-1, in increasing order that matches input row
\* order, and a filtered-out row leaves no gap.
C12_DenseOrdinals ==
    /\ \A k \in 1..Len(tmcfs) : StartsWith(tmcfs[k], NodeLine(k - 1))
    /\ Formatted
           => /\ Len(tmcfs) = Len(RetainedRows)
              /\ [k \in 1..Len(tmcfs) |-> ColumnOf(tmcfs[k])]
                     = Names(RetainedRows)

\* two retained rows, the first of them behind a filtered-out row
C12_Witness ==
    /\ pc = "done"
    /\ Len(input_file.rows) = 3
    /\ ~Retained(input_file.rows[1])
    /\ Len(tmcfs) = 2
    /\ OrdinalOf(tmcfs[1]) = "0"
    /\ OrdinalOf(tmcfs[2]) = "1"

DefaultConfiguration ==
    /\ FLAG_SKIP_EAL_COMPONENTS
    /\ FLAG_SKIP_IMPACTED_THING_COMPONENTS
    /\ FLAG_SKIP_NON_SCORE_RELATIVE_MEASURES
    /\ FLAG_SKIP_RAW_VALUES

\* the phrases of the four vocabularies
SkipVocabulary ==
    Elems(EAL_COMPONENTS) \cup Elems(IMPACTED_THING_COMPONENTS)
    \cup Elems(NON_SCORE_RELATIVE_MEASURES) \cup Elems(RAW_VALUE_COMPONENTS)

\* sub is a substring of text, at any place
OccursIn(sub, text) ==
    \E i \in 1..(Len(text) - Len(sub) + 1) :
        SubSeq(text, i, i + Len(sub) - 1) = sub

\* the retention rule as stated: the name is not excluded and no phrase
\* occurs anywhere in the whole alias
StatedRetained(row) ==
    /\ row["Field Name"] \notin IGNORED_FIELDS
    /\ \A phrase \in SkipVocabulary : ~OccursIn(phrase, row["Field Alias"])

StatedRetainedFileRows == {row \in DictionaryRows : StatedRetained(row)}

IsStatedRetained(row) == row \in StatedRetainedFileRows

StatedRetainedRows == SelectSeq(input_file.rows, IsStatedRetained)

\* the rows the first loop has kept, as they were in the input
ExtractedRows ==
    [k \in 1..Len(extracted_properties) |-> extracted_properties[k].row]

\* C13: with all four switches set to exclude, a row contributes to the
\* outputs if and only if its Field Name is not in IGNORED_FIELDS and its whole
\* Field Alias contains, as a substring anywhere, none of the phrases of the
\* four vocabularies; the retained rows keep their relative input order.
C13_RetainedRows ==
    DefaultConfiguration
        => LET stated == StatedRetainedRows
           IN  /\ pc \in {"format", "prune"}
                      => /\ Names(ExtractedRows) = Names(stated)
                         /\ Aliases(ExtractedRows) = Aliases(stated)
               /\ pc = "prune"
                      => /\ csv_columns = Names(stated)
                         /\ Len(schemas) = Len(stated)
                         /\ Len(tmcfs) = Len(stated)
               /\ Formatted
                      => Elems(csv_columns) = Elems(Names(stated))

\* an ignored column, a row whose alias holds a phrase inside a segment, and
\* a retained row behind them
C13_Witness ==
    /\ pc = "done"
    /\ Names(input_file.rows) = <<"OBJECTID", "AVLN_RISKR", "RISK_SCORE">>
    /\ csv_columns = <<"RISK_SCORE">>
    /\ Len(files[TMCF_OUTFILE_FILENAME]) = 1

(***************************************************************************)
(* Properties of the written outputs (Spec)                                *)
(***************************************************************************)
Written(name) == Len(files[name])

\* C14: no output is written before the whole pass over the rows (load,
\* filter, extract, format, prune) has completed: a run that fails while
\* loading or processing a row ends with none of the three outputs written,
\* and a run that does not fail writes each of the three exactly once.
C14_OutputsAfterFullPass ==
    /\ pc \in {"load", "extract", "format", "prune", "write_schema", "failed"}
           => files = NoFiles
    /\ pc = "write_tmcf"
           => /\ Written(SCHEMA_OUTFILE_FILENAME) = 1
              /\ Written(TMCF_OUTFILE_FILENAME) = 0
              /\ Written(CSV_COLUMNS_FILENAME) = 0
    /\ pc = "write_csv"
           => /\ Written(SCHEMA_OUTFILE_FILENAME) = 1
              /\ Written(TMCF_OUTFILE_FILENAME) = 1
              /\ Written(CSV_COLUMNS_FILENAME) = 0
    /\ pc = "done"
           => /\ Written(SCHEMA_OUTFILE_FILENAME) = 1
              /\ Written(TMCF_OUTFILE_FILENAME) = 1
              /\ Written(CSV_COLUMNS_FILENAME) = 1

\* a run that formatted one row and failed on a later one
C14_Witness ==
    /\ pc = "failed"
    /\ Len(extracted_properties) >= 2
    /\ Len(schemas) = 1
    /\ files = NoFiles

(***************************************************************************)
(* Properties of the identifiers in the schema output (Spec)               *)
(***************************************************************************)
\* the identifier a schema block carries in its Node line
IdentifierOf(schema) == LineOf(schema, "Node: dcid:")

Pruned == pc \in {"write_schema", "write_tmcf", "write_csv", "done"}

\* C15: after the pruning no two schema blocks of the schema output carry
\* the same identifier: two rows that give the same identifier give the same
\* schema text, so pruning by exact text leaves each identifier at most once.
C15_UniqueIdentifiers ==
    Pruned
        => \A a, b \in 1..Len(schemas) :
               a # b => IdentifierOf(schemas[a]) # IdentifierOf(schemas[b])

(***************************************************************************)
(* Properties of the template blocks at the pruning (Spec)                 *)
(***************************************************************************)
\* C16: the template blocks of one run are pairwise distinct, each carrying
\* an ordinal of its own, so pruning the template list removes nothing: the
\* template output holds one block for every retained row, also when the
\* schema list and the column list shrink.
C16_TemplatesAllKept ==
    [][pc = "prune"
           => /\ \A a, b \in 1..Len(tmcfs) :
                     a # b => /\ tmcfs[a] # tmcfs[b]
                              /\ OrdinalOf(tmcfs[a]) # OrdinalOf(tmcfs[b])
              /\ tmcfs' = tmcfs
              /\ Len(tmcfs') = Len(extracted_properties)]_vars

\* the same row three times: one schema block, one column name, three
\* template blocks
C16_Witness ==
    /\ pc = "write_schema"
    /\ Len(extracted_properties) = 3
    /\ Len(schemas) = 1
    /\ Len(csv_columns) = 1
    /\ Len(tmcfs) = 3

====
